---------------------------- MODULE Spec2Model ----------------------------
(***************************************************************************)
(* A model of the Markdown -> Notion block converter (md2notion.py) and of *)
(* the Notion block -> text renderer and block fetcher (notion.py).        *)
(*                                                                         *)
(* Python values are modelled as follows.                                  *)
(*   dict           a function whose domain is a set of strings            *)
(*   list           a sequence                                             *)
(*   str            in the converter a string, which it only copies; in    *)
(*                  the renderer a sequence of tokens, each token a piece  *)
(*                  of text without a line break, NL or TAB                *)
(*   None           a value that may be None is kept as None (the empty    *)
(*                  sequence) or as Some(x), which is <<x>>                *)
(*   a call         Return(v) or Raise(e): the value returned or the name  *)
(*                  of the exception that escapes                          *)
(***************************************************************************)
EXTENDS Integers, Sequences, FiniteSets, TLC

VARIABLES
    pc,             \* which call is in progress or has returned
    spans,          \* spans2text: the span list given
    rich_text,      \* spans2text: the runs returned
    images,         \* spans2text: the image blocks returned
    ast,            \* md2notion.py: the Markdown node (or document) given
    notion_blocks,  \* md2notion.py: the outcome, Return(blocks) or Raise(e)
    api_block,      \* the store's answer: a block object and, under it, the
                    \* block objects its children endpoint returns
    block_dict,     \* _block_dict_to_text: the block given
    pos,            \* _block_dict_to_text: its position among its siblings
    text,           \* _block_dict_to_text: the outcome, Return(str) or Raise(e)
    num_blocks,     \* _get_block_children: the number of blocks asked for
    page_size,      \* _get_block_children: the page size of its requests
    blocks,         \* _get_block_children: the blocks fetched so far
    start_cursor    \* _get_block_children: the cursor of the next request

spansVars == <<spans, rich_text, images>>
docVars == <<ast, notion_blocks>>
renderVars == <<api_block, block_dict, pos, text>>
fetchVars == <<num_blocks, page_size, blocks, start_cursor>>
vars == <<pc, spansVars, docVars, renderVars, fetchVars>>

\* the variables of the fetch loop before a call of it
FetchIdle ==
    /\ num_blocks = 0
    /\ page_size = 0
    /\ blocks = <<>>
    /\ start_cursor = <<>>

---------------------------------------------------------------------------
(* Python values *)

None == <<>>
Some(x) == <<x>>

EmptyDict == [k \in {} |-> TRUE]

\* d[k] = v
SetKey(d, k, v) == [x \in (DOMAIN d) \cup {k} |-> IF x = k THEN v ELSE d[x]]

\* d.get(k): Some(d[k]), or None when the key is missing
Get(d, k) == IF k \in DOMAIN d THEN Some(d[k]) ELSE None

\* d.get(k) of a key whose value may be None
GetNullable(d, k) == IF k \in DOMAIN d THEN d[k] ELSE None

\* d.get(k, default)
GetOr(d, k, default) == IF k \in DOMAIN d THEN d[k] ELSE default

Return(v) == [exc |-> "", val |-> v]
Raise(e) == [exc |-> e, val |-> <<>>]

Max2(a, b) == IF a >= b THEN a ELSE b

---------------------------------------------------------------------------
(* md2notion.py *)

\* make_block(type_name, data, **kwargs): a list of one block
make_block(type_name, data) ==
    << (type_name :> data) @@ [object |-> "block", type |-> type_name] >>

\* the run built from a leaf span's literal content
TextRun(content) ==
    [type |-> "text",
     text |-> [content |-> content],
     annotations |-> EmptyDict,
     plain_text |-> content]

\* the block built from an Image span
ImageBlock(span) ==
    make_block("image", [type |-> "external", external |-> [url |-> span.src]])

SetAnnotation(c, flag) ==
    [c EXCEPT !.annotations = SetKey(c.annotations, flag, TRUE)]

\* a plausible slip: the flag replaces the annotations set so far
HandleStyle_overwrite(span, children) ==
    LET only(flag) == [i \in DOMAIN children |->
                          [children[i] EXCEPT !.annotations = SetKey(EmptyDict, flag, TRUE)]]
    IN  CASE span.kind = "Strong" -> only("bold")
          [] span.kind = "Emphasis" -> only("italic")
          [] span.kind = "InlineCode" -> only("code")
          [] span.kind = "Strikethrough" -> only("strikethrough")
          [] OTHER -> children

\* "Handle style": the span's own flag is set on every run below it
HandleStyle(span, children) ==
    LET set(flag) == [i \in DOMAIN children |-> SetAnnotation(children[i], flag)]
    IN  CASE span.kind = "Strong" -> set("bold")
          [] span.kind = "Emphasis" -> set("italic")
          [] span.kind = "InlineCode" -> set("code")
          [] span.kind = "Strikethrough" -> set("strikethrough")
          [] OTHER -> children

\* "Handle links": the target is set on every run below a Link or AutoLink
HandleLinks(span, children) ==
    IF span.kind \in {"AutoLink", "Link"}
    THEN [i \in DOMAIN children |->
            SetKey([children[i] EXCEPT
                       !.text = SetKey(children[i].text, "link", [url |-> span.target])],
                   "href", span.target)]
    ELSE children

\* a plausible slip: the images found so far are replaced, not extended
Accumulate_replace(acc, children, child_images) ==
    <<acc[1] \o children, IF child_images = <<>> THEN acc[2] ELSE child_images>>

\* rich_text += children; images += child_images
Accumulate(acc, children, child_images) ==
    <<acc[1] \o children, acc[2] \o child_images>>

RECURSIVE spans2text(_)
\* one iteration of the loop over the spans: <<children, child_images>>
span2text(span) ==
    IF span.kind = "Image"
    THEN <<(<<>>), ImageBlock(span)>>
    ELSE LET sub == IF "children" \in DOMAIN span /\ span.children # <<>>
                    THEN spans2text(span.children)
                    ELSE <<(<<TextRun(span.content)>>), (<<>>)>>
         IN  <<HandleLinks(span, HandleStyle(span, sub[1])), sub[2]>>

\* spans2text(spans): <<rich_text, images>>
spans2text(s) ==
    LET loop[i \in 0..Len(s)] ==
            IF i = 0 THEN <<(<<>>), (<<>>)>>
            ELSE LET one == span2text(s[i])
                 IN  Accumulate(loop[i - 1], one[1], one[2])
    IN  loop[Len(s)]

\* f"heading_{block.level}"
HeadingTag(level) ==
    CASE level = 1 -> "heading_1"
      [] level = 2 -> "heading_2"
      [] level = 3 -> "heading_3"
      [] level = 4 -> "heading_4"
      [] level = 5 -> "heading_5"
      [] level = 6 -> "heading_6"

\* the block made of a node's inline content, followed by its images
TextBlock(type_name, block) ==
    LET r == spans2text(block.children)
    IN  make_block(type_name, [rich_text |-> r[1]]) \o r[2]

heading2notion(block) == TextBlock(HeadingTag(block.level), block)

quote2notion(block) == TextBlock("quote", block)

paragraph2notion(block) == TextBlock("paragraph", block)

\* block.language or None
LanguageOrNone(language) == IF language = "" THEN None ELSE Some(language)

blockcode2notion(block) ==
    LET r == spans2text(block.children)
    IN  make_block("code", [rich_text |-> r[1],
                            language |-> LanguageOrNone(block.language)]) \o r[2]

codefence2notion(block) ==
    LET r == spans2text(block.children)
    IN  make_block("code", [rich_text |-> r[1],
                            language |-> LanguageOrNone(block.language)]) \o r[2]

\* the truth value of block.start: None and 0 are false
Truthy(start) == start # None /\ start[1] # 0

\* "numbered_list_item" if block.start else "bulleted_list_item"
ListType(block) ==
    IF Truthy(block.start) THEN "numbered_list_item" ELSE "bulleted_list_item"

RECURSIVE list2notion(_)
listitem2notion(block, list_type) ==
    IF block.children = <<>> THEN Raise("IndexError")
    ELSE IF "children" \notin DOMAIN block.children[1] THEN Raise("AttributeError")
    ELSE LET p == spans2text(block.children[1].children)
             data == [rich_text |-> p[1]]
         IN  IF Len(block.children) > 1 /\ block.children[2].kind = "List"
             THEN LET sub == list2notion(block.children[2])
                  IN  IF sub.exc # "" THEN sub
                      ELSE Return(make_block(list_type,
                                             SetKey(data, "children", p[2] \o sub.val)))
             ELSE Return(make_block(list_type, data))

list2notion(block) ==
    LET items[i \in 0..Len(block.children)] ==
            IF i = 0 THEN Return(<<>>)
            ELSE IF items[i - 1].exc # "" THEN items[i - 1]
            ELSE LET r == listitem2notion(block.children[i], ListType(block))
                 IN  IF r.exc # "" THEN r ELSE Return(items[i - 1].val \o r.val)
    IN  items[Len(block.children)]

tablerow2notion(block) ==
    make_block("table_row",
               [cells |-> [i \in DOMAIN block.children |->
                              spans2text(block.children[i].children)[1]]])

\* max(a, *rest): with rest empty this is max(a) of an int, which is not iterable
PyMax(a, rest) ==
    LET m[i \in 0..Len(rest)] == IF i = 0 THEN a ELSE Max2(m[i - 1], rest[i])
    IN  IF rest = <<>> THEN Raise("TypeError") ELSE Return(m[Len(rest)])

table2notion(block) ==
    LET header == tablerow2notion(block.header)
        table_width == PyMax(Len(block.header.children),
                             [i \in DOMAIN block.children |-> Len(block.children[i].children)])
        rows[i \in 0..Len(block.children)] ==
            IF i = 0 THEN header ELSE rows[i - 1] \o tablerow2notion(block.children[i])
    IN  IF table_width.exc # "" THEN table_width
        ELSE Return(make_block("table", [table_width |-> table_width.val,
                                         children |-> rows[Len(block.children)]]))

\* make_block("divider"): data is None, so the block holds {}
break2notion(block) == make_block("divider", EmptyDict)

html2notion(block) == blockcode2notion(block)

\* the blocks of one top-level node
Dispatch(child) ==
    CASE child.kind = "Heading" -> Return(heading2notion(child))
      [] child.kind = "Quote" -> Return(quote2notion(child))
      [] child.kind = "Paragraph" -> Return(paragraph2notion(child))
      [] child.kind = "CodeFence" -> Return(codefence2notion(child))
      [] child.kind = "BlockCode" -> Return(blockcode2notion(child))
      [] child.kind = "List" -> list2notion(child)
      [] child.kind = "Table" -> table2notion(child)
      [] child.kind = "ThematicBreak" -> Return(break2notion(child))
      [] child.kind = "HtmlBlock" -> Return(html2notion(child))
      [] OTHER -> Return(<<>>)

\* print(doc.children[-1].children)
PrintLast(doc) ==
    IF doc.children = <<>> THEN Raise("IndexError")
    ELSE IF "children" \notin DOMAIN doc.children[Len(doc.children)]
         THEN Raise("AttributeError")
         ELSE Return(<<>>)

md2notion(doc) ==
    LET loop[i \in 0..Len(doc.children)] ==
            IF i = 0 THEN Return(<<>>)
            ELSE IF loop[i - 1].exc # "" THEN loop[i - 1]
            ELSE LET r == Dispatch(doc.children[i])
                 IN  IF r.exc # "" THEN r ELSE Return(loop[i - 1].val \o r.val)
    IN  IF PrintLast(doc).exc # "" THEN PrintLast(doc) ELSE loop[Len(doc.children)]

---------------------------------------------------------------------------
(* notion.py: the blocks fetched *)

\* block_dict.get("has_children") and block_dict.get("type") != "child_page"
FetchesChildren(bd) ==
    GetOr(bd, "has_children", FALSE) /\ GetNullable(bd, "type") # Some("child_page")

RECURSIVE _dict_to_notion_block(_)
\* n.dict is the block object, n.kids what the store returns as its children;
\* the children are the blocks of the nested _get_block_children call
_dict_to_notion_block(n) ==
    LET bd == n.dict
        type == GetNullable(bd, "type")
    IN  [id |-> GetNullable(bd, "id"),
         created_at |-> GetNullable(bd, "created_time"),
         modified_at |-> GetNullable(bd, "last_edited_time"),
         type |-> type,
         data |-> IF type # None /\ type[1] \in DOMAIN bd
                  THEN Some(bd[type[1]]) ELSE None,
         has_children |-> GetOr(bd, "has_children", FALSE),
         children |-> IF FetchesChildren(bd)
                      THEN [i \in DOMAIN n.kids |-> _dict_to_notion_block(n.kids[i])]
                      ELSE <<>>]

---------------------------------------------------------------------------
(* notion.py: the renderer *)

NL == "\n"
TAB == "\t"
\* the three backquotes that fence a code block
FENCE == "<fence>"

\* f"{v}" of a value that may be None
Fmt(v) == IF v = None THEN <<"None">> ELSE v[1]

Flatten(ss) ==
    LET f[i \in 0..Len(ss)] == IF i = 0 THEN <<>> ELSE f[i - 1] \o ss[i]
    IN  f[Len(ss)]

_rich_text_arr_to_text(arr) ==
    IF arr = None THEN <<>>
    ELSE Flatten([i \in DOMAIN arr[1] |->
            LET t == arr[1][i]
                txt == GetOr(t, "plain_text", <<>>)
                href == GetNullable(t, "href")
            IN  IF href # None /\ href[1] # <<>>
                THEN <<"(">> \o txt \o <<")[">> \o href[1] \o <<"]">>
                ELSE txt])

\* a plausible slip: the child's text is taken as it is, so that only its first
\* line is indented
ReplaceNL_none(block_text) == block_text

\* block_text.replace("\n", "\n\t")
ReplaceNL(block_text) ==
    Flatten([i \in DOMAIN block_text |->
                IF block_text[i] = NL THEN <<NL, TAB>> ELSE <<block_text[i]>>])

\* block_type.startswith("heading"), over the kind tags of the model
StartsWithHeading(block_type) ==
    block_type \in {"heading", "heading_x", "heading_1", "heading_2", "heading_3"}

\* int(block_type.replace("heading_", "")): None stands for ValueError
HeadingSize(block_type) ==
    CASE block_type = "heading_1" -> Some(1)
      [] block_type = "heading_2" -> Some(2)
      [] block_type = "heading_3" -> Some(3)
      [] OTHER -> None

\* "#" * heading_size
Hashes(n) == [i \in 1..n |-> "#"]

\* the kinds whose rendering reads no field of data
NoDataKinds ==
    {"breadcrumb", "column_list", "divider", "synced_block", "table",
     "table_of_contents"}

\* the kinds of the dispatch table that are compared for equality
EqualityKinds ==
    {"bookmark", "breadcrumb", "bulleted_list_item", "callout", "child_database",
     "child_page", "code", "column_list", "divider", "embed", "equation", "file",
     "image", "link_preview", "mention", "numbered_list_item", "paragraph", "pdf",
     "quote", "synced_block", "table", "table_of_contents", "to_do", "toggle",
     "video"}

\* f"![{url}]({url})" of data.get(data.get("type"), {}).get("url")
MediaText(data) ==
    LET image_type == GetNullable(data, "type")
        source == IF image_type # None /\ image_type[1] \in DOMAIN data
                  THEN data[image_type[1]] ELSE Some(EmptyDict)
    IN  IF source = None THEN Raise("AttributeError")
        ELSE LET url == Fmt(GetNullable(source[1], "url"))
             IN  Return(<<"![">> \o url \o <<"](">> \o url \o <<")">>)

RECURSIVE _block_dict_to_text(_, _)
_format_children(b) ==
    IF "has_children" \in DOMAIN b /\ b.has_children
    THEN LET child_blocks == GetOr(b, "children", <<>>)
             loop[i \in 0..Len(child_blocks)] ==
                 IF i = 0 THEN Return(<<>>)
                 ELSE IF loop[i - 1].exc # "" THEN loop[i - 1]
                 ELSE LET block_text == _block_dict_to_text(child_blocks[i], i - 1)
                      IN  IF block_text.exc # "" THEN block_text
                          ELSE Return(loop[i - 1].val \o <<NL, TAB>>
                                      \o ReplaceNL(block_text.val))
         IN  loop[Len(child_blocks)]
    ELSE Return(<<>>)

\* text + _format_children(block_dict)
WithChildren(own, b) ==
    LET fc == _format_children(b)
    IN  IF fc.exc # "" THEN fc ELSE Return(own \o fc.val)

_block_dict_to_text(b, p) ==
    LET block_type == GetNullable(b, "type")
        data == GetOr(b, "data", Some(EmptyDict))
        t == block_type[1]
        d == data[1]
        rt == _rich_text_arr_to_text(Get(d, "rich_text"))
        id == Fmt(GetNullable(b, "id"))
    IN  IF block_type = None THEN Raise("AttributeError")
        ELSE IF t \notin EqualityKinds /\ ~StartsWithHeading(t) THEN Return(<<>>)
        ELSE IF StartsWithHeading(t) /\ HeadingSize(t) = None THEN Raise("ValueError")
        ELSE IF t \notin NoDataKinds /\ data = None THEN Raise("AttributeError")
        ELSE CASE t = "bookmark" ->
                    Return(<<"[">> \o _rich_text_arr_to_text(Get(d, "caption"))
                           \o <<"](">> \o GetOr(d, "url", <<>>) \o <<")">>)
               [] t = "breadcrumb" -> Return(<<>>)
               [] t = "bulleted_list_item" -> WithChildren(<<"- ">> \o rt, b)
               [] t = "callout" -> Return(rt)
               [] t \in {"child_database", "child_page"} ->
                    Return(<<"[">> \o Fmt(GetNullable(d, "title"))
                           \o <<"](page_id=">> \o id \o <<")">>)
               [] t = "code" ->
                    Return(<<FENCE>> \o Fmt(GetNullable(d, "language")) \o <<NL>>
                           \o rt \o <<NL, FENCE>>)
               [] t = "column_list" -> _format_children(b)
               [] t = "divider" -> Return(<<"---">>)
               [] t \in {"embed", "link_preview"} ->
                    Return(<<"[">> \o GetOr(d, "url", <<>>) \o <<"](">>
                           \o GetOr(d, "url", <<>>) \o <<")">>)
               [] t = "equation" -> Return(GetOr(d, "expression", <<>>))
               [] t = "file" ->
                    LET caption == _rich_text_arr_to_text(Get(d, "caption"))
                        name == GetNullable(d, "name")
                        url == GetOr(d, "url", <<>>)
                        shown == IF caption # <<>> THEN caption
                                 ELSE IF name # None /\ name[1] # <<>> THEN name[1]
                                 ELSE url
                    IN  Return(<<"[">> \o shown \o <<"](">> \o url \o <<")">>)
               [] StartsWithHeading(t) ->
                    WithChildren(Hashes(HeadingSize(t)[1]) \o <<" ">> \o rt, b)
               [] t \in {"image", "pdf", "video"} -> MediaText(d)
               [] t = "mention" -> _block_dict_to_text(d, 0)
               [] t = "numbered_list_item" ->
                    WithChildren(<<ToString(p + 1), ". ">> \o rt, b)
               [] t = "paragraph" -> WithChildren(rt, b)
               [] t = "quote" -> WithChildren(<<"> ">> \o rt, b)
               [] t = "synced_block" -> _format_children(b)
               [] t = "table" -> Return(<<"[Table](table_id=">> \o id \o <<")">>)
               [] t = "table_of_contents" -> Return(<<>>)
               [] t = "to_do" ->
                    WithChildren((IF GetOr(d, "checked", FALSE)
                                  THEN <<"- [x]">> ELSE <<"- [ ]">>) \o rt, b)
               [] t = "toggle" -> WithChildren(rt, b)

---------------------------------------------------------------------------
(* The span trees given to the converter *)

MaxSpanNodes == 3

Contents == {"x", "y"}
Urls == {"u", "v"}
StyleKinds == {"Strong", "Emphasis", "InlineCode", "Strikethrough"}

RawText(c) == [kind |-> "RawText", content |-> c]

\* the flag each style span stands for
FlagOf(kind) ==
    CASE kind = "Strong" -> "bold"
      [] kind = "Emphasis" -> "italic"
      [] kind = "InlineCode" -> "code"
      [] kind = "Strikethrough" -> "strikethrough"

RECURSIVE SpanForests(_)
RECURSIVE SpanTrees(_)
\* the span trees of exactly n nodes; a style span or a link has at least one
\* child, an image has its alternative text as children (possibly none)
SpanTrees(n) ==
    IF n = 1
    THEN {RawText(c) : c \in Contents}
         \cup {[kind |-> "Image", src |-> u, children |-> <<>>] : u \in Urls}
    ELSE {[kind |-> k, children |-> f] : k \in StyleKinds, f \in SpanForests(n - 1)}
         \cup {[kind |-> "Link", target |-> "t", children |-> f] : f \in SpanForests(n - 1)}
         \cup {[kind |-> "Image", src |-> u, children |-> f] :
                  u \in Urls, f \in SpanForests(n - 1)}

\* the span lists of exactly n nodes in all
SpanForests(n) ==
    IF n = 0 THEN {<<>>}
    ELSE UNION {{<<t>> \o f : t \in SpanTrees(k), f \in SpanForests(n - k)} : k \in 1..n}

SpanLists == UNION {SpanForests(n) : n \in 0..MaxSpanNodes}

---------------------------------------------------------------------------
(* Calling spans2text *)

InitSpans ==
    /\ pc = "spans2text"
    /\ spans \in SpanLists
    /\ rich_text = <<>>
    /\ images = <<>>
    /\ ast = <<>>
    /\ notion_blocks = <<>>
    /\ api_block = <<>>
    /\ block_dict = <<>>
    /\ pos = 0
    /\ text = <<>>
    /\ FetchIdle

CallSpans2text ==
    /\ pc = "spans2text"
    /\ LET r == spans2text(spans)
       IN  /\ rich_text' = r[1]
           /\ images' = r[2]
    /\ pc' = "spans2text_done"
    /\ UNCHANGED <<spans, docVars, renderVars, fetchVars>>

NextSpans == CallSpans2text

SpecSpans == InitSpans /\ [][NextSpans]_vars

---------------------------------------------------------------------------
(* The Markdown nodes given to the converter *)

MaxItems == 2
MaxStart == 2
MaxCells == 3
MaxRows == 2
MaxDocLen == 2

SeqsUpTo(S, lo, hi) == UNION {[1..n -> S] : n \in lo..hi}

Img(u) == [kind |-> "Image", src |-> u, children |-> <<>>]
Para(s) == [kind |-> "Paragraph", children |-> s]
Item(c) == [kind |-> "ListItem", children |-> c]

\* the first child of a list item
ItemParas == {Para(<<RawText("x")>>), Para(<<Img("u"), RawText("x")>>)}

\* List.start: None for a bulleted list, the first number of an ordered one
ListStarts == {None} \cup {Some(n) : n \in 0..MaxStart}

ListOf(start, items) == [kind |-> "List", start |-> start, children |-> items]

\* items without a sub-list: empty, one paragraph, two paragraphs
FlatItems ==
    {Item(<<>>)} \cup {Item(<<p>>) : p \in ItemParas}
    \cup {Item(<<p, Para(<<RawText("y")>>)>>) : p \in ItemParas}

\* the lists nested in an item: one flat item
SubLists == {ListOf(s, <<i>>) : s \in ListStarts, i \in FlatItems}

ListItems == FlatItems \cup {Item(<<p, l>>) : p \in ItemParas, l \in SubLists}

Lists == {ListOf(s, c) : s \in ListStarts, c \in SeqsUpTo(ListItems, 1, MaxItems)}

TableRow(n) ==
    [kind |-> "TableRow",
     children |-> [i \in 1..n |-> [kind |-> "TableCell",
                                   children |-> <<RawText("x")>>]]]

Tables ==
    {[kind |-> "Table", header |-> TableRow(h), children |-> rows] :
        h \in 1..MaxCells,
        rows \in SeqsUpTo({TableRow(n) : n \in 1..MaxCells}, 0, MaxRows)}

\* the top-level nodes of the documents; a ThematicBreak has no children
\* attribute or children None, depending on the parser's version
TopNodes ==
    {[kind |-> "Heading", level |-> 2, children |-> <<RawText("x")>>],
     [kind |-> "Quote", children |-> <<Para(<<RawText("x")>>)>>],
     Para(<<RawText("x")>>),
     Para(<<Img("u"), RawText("x")>>),
     [kind |-> "CodeFence", language |-> "", children |-> <<RawText("x")>>],
     [kind |-> "CodeFence", language |-> "python", children |-> <<RawText("x")>>],
     [kind |-> "BlockCode", language |-> "", children |-> <<RawText("x")>>],
     ListOf(None, <<Item(<<Para(<<RawText("x")>>)>>)>>),
     ListOf(Some(1), <<Item(<<Para(<<RawText("x")>>)>>)>>),
     ListOf(None, <<Item(<<>>)>>),
     [kind |-> "Table", header |-> TableRow(2), children |-> <<TableRow(2)>>],
     [kind |-> "Table", header |-> TableRow(2), children |-> <<>>],
     [kind |-> "ThematicBreak"],
     [kind |-> "ThematicBreak", children |-> None],
     [kind |-> "HtmlBlock", language |-> "", children |-> <<RawText("x")>>],
     [kind |-> "Footnote", children |-> <<>>]}

Documents == {[kind |-> "Document", children |-> c] : c \in SeqsUpTo(TopNodes, 0, MaxDocLen)}

---------------------------------------------------------------------------
(* Calling the block-level converters *)

InitDoc ==
    /\ \/ pc = "md2notion" /\ ast \in Documents
       \/ pc = "table2notion" /\ ast \in Tables
       \/ pc = "list2notion" /\ ast \in Lists
       \/ /\ pc = "listitem2notion"
          /\ ast \in {[block |-> b, list_type |-> t] :
                         b \in ListItems,
                         t \in {"bulleted_list_item", "numbered_list_item"}}
    /\ notion_blocks = <<>>
    /\ spans = <<>>
    /\ rich_text = <<>>
    /\ images = <<>>
    /\ api_block = <<>>
    /\ block_dict = <<>>
    /\ pos = 0
    /\ text = <<>>
    /\ FetchIdle

CallMd2notion ==
    /\ pc = "md2notion"
    /\ notion_blocks' = md2notion(ast)
    /\ pc' = "md2notion_done"
    /\ UNCHANGED <<ast, spansVars, renderVars, fetchVars>>

CallTable2notion ==
    /\ pc = "table2notion"
    /\ notion_blocks' = table2notion(ast)
    /\ pc' = "table2notion_done"
    /\ UNCHANGED <<ast, spansVars, renderVars, fetchVars>>

CallList2notion ==
    /\ pc = "list2notion"
    /\ notion_blocks' = list2notion(ast)
    /\ pc' = "list2notion_done"
    /\ UNCHANGED <<ast, spansVars, renderVars, fetchVars>>

CallListitem2notion ==
    /\ pc = "listitem2notion"
    /\ notion_blocks' = listitem2notion(ast.block, ast.list_type)
    /\ pc' = "listitem2notion_done"
    /\ UNCHANGED <<ast, spansVars, renderVars, fetchVars>>

NextDoc ==
    \/ CallMd2notion
    \/ CallTable2notion
    \/ CallList2notion
    \/ CallListitem2notion

SpecDoc == InitDoc /\ [][NextDoc]_vars

---------------------------------------------------------------------------
(* The block objects the store returns *)

MaxBlockNodes == 3
MaxPos == 2

Run(txt) == [plain_text |-> txt]

\* a block object of the store; without data the object has no key of its type
ApiDict(tag, data, hc) ==
    (IF data = None THEN EmptyDict ELSE (tag :> data[1]))
    @@ [id |-> Some(<<"i">>), type |-> Some(tag), has_children |-> hc]

StoreNode(dict, kids) == [dict |-> dict, kids |-> kids]

ChildBearingKinds ==
    {"bulleted_list_item", "numbered_list_item", "heading_1", "heading_2",
     "heading_3", "paragraph", "quote", "to_do", "toggle"}

\* the kinds of the renderer's dispatch table
DispatchKinds == EqualityKinds \cup {"heading_1", "heading_2", "heading_3"}

\* the kind tags of the model
AllTags == DispatchKinds \cup {"unsupported_xyz", "heading", "heading_x"}

FullData ==
    [rich_text |-> <<Run(<<"a">>)>>,
     caption |-> <<Run(<<"c">>)>>,
     url |-> <<"u">>,
     title |-> Some(<<"T">>),
     language |-> Some(<<"python">>),
     expression |-> <<"e">>,
     name |-> Some(<<"n">>),
     type |-> Some("external"),
     external |-> Some([url |-> Some(<<"w">>)]),
     checked |-> TRUE]

\* the data of a block object: None when the object lacks it
DataVariants ==
    {None,
     Some(EmptyDict),
     Some(FullData),
     Some([k \in DOMAIN FullData \ {"language"} |-> FullData[k]]),
     Some([FullData EXCEPT !.language = None]),
     Some([rich_text |-> <<Run(<<"a">>), [plain_text |-> <<"b">>, href |-> Some(<<"h">>)]>>])}

\* block objects of every kind, without children or with one paragraph under
\* them in the store, which has_children tells or fails to tell
FlatNodes ==
    {StoreNode(ApiDict(tag, data, FALSE), <<>>) : tag \in AllTags, data \in DataVariants}
    \cup {StoreNode(ApiDict(tag, data, hc),
                    <<StoreNode(ApiDict("paragraph", Some(FullData), FALSE), <<>>)>>) :
             tag \in AllTags, data \in DataVariants, hc \in BOOLEAN}
    \cup {StoreNode([id |-> Some(<<"i">>), has_children |-> FALSE], <<>>)}

\* the kind and data of the nodes of the block trees
TreeLabels ==
    {<<"toggle", [rich_text |-> <<Run(<<"a">>)>>]>>,
     <<"paragraph", [rich_text |-> <<Run(<<"c", NL, "d">>)>>]>>,
     <<"numbered_list_item", [rich_text |-> <<Run(<<"e">>)>>]>>,
     <<"unsupported_xyz", EmptyDict>>}

RECURSIVE StoreForests(_)
RECURSIVE StoreTrees(_)
\* the block trees of exactly n nodes; a block object whose has_children is
\* false has no children in the store
StoreTrees(n) ==
    IF n = 1
    THEN {StoreNode(ApiDict(l[1], Some(l[2]), hc), <<>>) :
             l \in TreeLabels, hc \in BOOLEAN}
    ELSE {StoreNode(ApiDict(l[1], Some(l[2]), TRUE), f) :
             l \in TreeLabels, f \in StoreForests(n - 1)}

StoreForests(n) ==
    IF n = 0 THEN {<<>>}
    ELSE UNION {{<<t>> \o f : t \in StoreTrees(k), f \in StoreForests(n - k)} : k \in 1..n}

TreeNodes == UNION {StoreTrees(n) : n \in 1..MaxBlockNodes}

---------------------------------------------------------------------------
(* Fetching a block and rendering it *)

InitRender ==
    /\ pc = "_dict_to_notion_block"
    /\ \/ api_block \in FlatNodes /\ pos \in 0..MaxPos
       \/ api_block \in TreeNodes /\ pos = 0
    /\ block_dict = <<>>
    /\ text = <<>>
    /\ spans = <<>>
    /\ rich_text = <<>>
    /\ images = <<>>
    /\ ast = <<>>
    /\ notion_blocks = <<>>
    /\ FetchIdle

DictToNotionBlock ==
    /\ pc = "_dict_to_notion_block"
    /\ block_dict' = _dict_to_notion_block(api_block)
    /\ pc' = "_block_dict_to_text"
    /\ UNCHANGED <<api_block, pos, text, spansVars, docVars, fetchVars>>

BlockDictToText ==
    /\ pc = "_block_dict_to_text"
    /\ text' = _block_dict_to_text(block_dict, pos)
    /\ pc' = "_block_dict_to_text_done"
    /\ UNCHANGED <<api_block, block_dict, pos, spansVars, docVars, fetchVars>>

NextRender == DictToNotionBlock \/ BlockDictToText

SpecRender == InitRender /\ [][NextRender]_vars

---------------------------------------------------------------------------
(* Fetching the blocks of a page: get_page_blocks, _get_block_children *)

PageSizeCap == 100

\* the values of num_blocks tried
NumBlocksChoices == {0, 1, 2, 3, 100, 150}

Min2(a, b) == IF a <= b THEN a ELSE b

\* the n-th block object of the page
PageResult(n) ==
    StoreNode([id |-> Some(n), type |-> Some("paragraph"), has_children |-> FALSE], <<>>)

\* how many results a response may hold: none, a few, or about a full page
ResultCounts(size) == {k \in 0..size : k <= 2 \/ k >= size - 1}

\* the responses of the store to a request, after `got` blocks were fetched
Responses(got, size) ==
    UNION {{[results |-> [i \in 1..k |-> PageResult(got + i)],
             has_more |-> more,
             next_cursor |-> cursor] :
               more \in BOOLEAN, cursor \in {None, Some(got + k)}} :
           k \in ResultCounts(size)}

InitFetch ==
    /\ pc = "_get_block_children"
    /\ num_blocks \in NumBlocksChoices
    /\ page_size = Min2(num_blocks, PageSizeCap)
    /\ blocks = <<>>
    /\ start_cursor = None
    /\ spans = <<>>
    /\ rich_text = <<>>
    /\ images = <<>>
    /\ ast = <<>>
    /\ notion_blocks = <<>>
    /\ api_block = <<>>
    /\ block_dict = <<>>
    /\ pos = 0
    /\ text = <<>>

\* one turn of the while loop: a request, its response, the blocks added
FetchPage ==
    /\ pc = "_get_block_children"
    /\ Len(blocks) < num_blocks
    /\ \E response_json \in Responses(Len(blocks), page_size) :
         /\ blocks' = blocks \o [i \in DOMAIN response_json.results |->
                                    _dict_to_notion_block(response_json.results[i])]
         /\ IF ~response_json.has_more \/ response_json.next_cursor = None
            THEN /\ pc' = "_get_block_children_done"
                 /\ UNCHANGED start_cursor
            ELSE /\ pc' = pc
                 /\ start_cursor' = response_json.next_cursor
    /\ UNCHANGED <<num_blocks, page_size, spansVars, docVars, renderVars>>

\* the loop's condition fails: return blocks
FetchReturn ==
    /\ pc = "_get_block_children"
    /\ ~(Len(blocks) < num_blocks)
    /\ pc' = "_get_block_children_done"
    /\ UNCHANGED <<fetchVars, spansVars, docVars, renderVars>>

NextFetch == FetchPage \/ FetchReturn

SpecFetch == InitFetch /\ [][NextFetch]_vars

---------------------------------------------------------------------------
(* Properties of spans2text *)

RECURSIVE ExpectedRuns(_, _, _)
\* The runs a span list stands for, read off the tree from the root down: each
\* leaf outside an image, in document order, with the flags of the style spans
\* above it and whether a link is above it.
ExpectedRuns(s, flags, linked) ==
    IF s = <<>> THEN <<>>
    ELSE LET span == Head(s)
             own == IF span.kind \in StyleKinds THEN {FlagOf(span.kind)} ELSE {}
             here ==
                 IF span.kind = "Image" THEN <<>>
                 ELSE IF "children" \in DOMAIN span
                      THEN ExpectedRuns(span.children, flags \cup own,
                                        linked \/ span.kind = "Link")
                      ELSE <<[content |-> span.content, flags |-> flags,
                              linked |-> linked]>>
         IN  here \o ExpectedRuns(Tail(s), flags, linked)

RECURSIVE ImageSrcs(_, _)
\* The sources of the Image spans of a span list in document order: every Image
\* span of the tree (inAlt = TRUE), or only those that do not lie in the
\* alternative text of another Image span (inAlt = FALSE).
ImageSrcs(s, inAlt) ==
    IF s = <<>> THEN <<>>
    ELSE LET span == Head(s)
             here ==
                 IF span.kind = "Image"
                 THEN <<span.src>> \o (IF inAlt THEN ImageSrcs(span.children, inAlt)
                                       ELSE <<>>)
                 ELSE IF "children" \in DOMAIN span
                      THEN ImageSrcs(span.children, inAlt)
                      ELSE <<>>
         IN  here \o ImageSrcs(Tail(s), inAlt)

Spans2textDone == pc = "spans2text_done"

\* C1: every run returned by spans2text carries exactly the flags of the style
\* spans above its leaf, each set to True, and a link exactly when a Link is
\* above it; there is one run per leaf outside an image, in document order.
C1_AnnotationUnion ==
    Spans2textDone =>
        LET e == ExpectedRuns(spans, {}, FALSE)
        IN  /\ Len(rich_text) = Len(e)
            /\ \A i \in DOMAIN rich_text :
                 /\ DOMAIN rich_text[i].annotations = e[i].flags
                 /\ \A f \in e[i].flags : rich_text[i].annotations[f] = TRUE
                 /\ rich_text[i].text.content = e[i].content
                 /\ ("link" \in DOMAIN rich_text[i].text) = e[i].linked
                 /\ ("href" \in DOMAIN rich_text[i]) = e[i].linked

\* Strong([Emphasis([text])]) has been converted to one run, bold and italic.
C1_Witness ==
    /\ Spans2textDone
    /\ spans = <<[kind |-> "Strong",
                  children |-> <<[kind |-> "Emphasis",
                                  children |-> <<RawText("x")>>]>>]>>
    /\ Len(rich_text) = 1
    /\ DOMAIN rich_text[1].annotations = {"bold", "italic"}

ImageUrls == [i \in DOMAIN images |-> images[i].image.external.url]

\* C2 as amended: the image blocks returned are those of the Image spans that
\* do not lie in another Image span's alternative text, one block of kind image
\* each, in document order; no leaf of an Image span's alternative text yields
\* a run, and the runs keep document order.
C2_ImagesExtracted ==
    Spans2textDone =>
        /\ ImageUrls = ImageSrcs(spans, FALSE)
        /\ \A i \in DOMAIN images : images[i].type = "image"
        /\ [i \in DOMAIN rich_text |-> rich_text[i].plain_text]
             = [i \in DOMAIN ExpectedRuns(spans, {}, FALSE) |->
                    ExpectedRuns(spans, {}, FALSE)[i].content]

\* A text span followed by an Image span has yielded one run and one image block.
C2_Witness ==
    /\ Spans2textDone
    /\ spans = <<RawText("x"), [kind |-> "Image", src |-> "u", children |-> <<>>]>>
    /\ Len(rich_text) = 1
    /\ Len(images) = 1
    /\ images[1].type = "image"

\* C2 as stated: as many image blocks as there are Image spans in the span tree.
C2_ImageCountOriginal ==
    Spans2textDone => Len(images) = Len(ImageSrcs(spans, TRUE))

---------------------------------------------------------------------------
(* Properties of the block-level converters *)

\* the greatest element of a non-empty set of numbers
Greatest(S) == CHOOSE m \in S : \A x \in S : m >= x

\* C3: table2notion returns one table block whose table_width is the greatest
\* cell count among the header and the body rows and whose children are the
\* header row followed by the body rows in source order, also for a table that
\* has only a header.
C3_TableWidth ==
    pc = "table2notion_done" =>
        /\ notion_blocks.exc = ""
        /\ Len(notion_blocks.val) = 1
        /\ notion_blocks.val[1].type = "table"
        /\ notion_blocks.val[1].table.table_width =
               Greatest({Len(ast.header.children)}
                        \cup {Len(ast.children[i].children) : i \in DOMAIN ast.children})
        /\ notion_blocks.val[1].table.children =
               tablerow2notion(ast.header)
               \o [i \in DOMAIN ast.children |-> tablerow2notion(ast.children[i])[1]]

\* C4: when list2notion returns, it has emitted one block per ListItem, each
\* of kind numbered_list_item if the List is ordered (it has a start number,
\* 0 included) and bulleted_list_item otherwise.
C4_ListItemKind ==
    (pc = "list2notion_done" /\ notion_blocks.exc = "") =>
        /\ Len(notion_blocks.val) = Len(ast.children)
        /\ \A i \in DOMAIN notion_blocks.val :
             notion_blocks.val[i].type =
                 IF ast.start # None THEN "numbered_list_item" ELSE "bulleted_list_item"

\* C7: md2notion returns a block sequence for every document and raises nothing.
C7_Md2notionTotal ==
    pc = "md2notion_done" => notion_blocks.exc = ""

\* the blocks of kind image among the children of an item block
ItemImages(block) ==
    IF "children" \in DOMAIN block[block.type]
    THEN SelectSeq(block[block.type].children, LAMBDA c : c.type = "image")
    ELSE <<>>

\* C10: when listitem2notion returns, every Image span of the inline content
\* of the item's first child is one image block among the item's children,
\* whether or not the item has a sub-list.
C10_ItemImagesKept ==
    (pc = "listitem2notion_done" /\ notion_blocks.exc = "") =>
        [i \in DOMAIN ItemImages(notion_blocks.val[1]) |->
            ItemImages(notion_blocks.val[1])[i].image.external.url]
          = ImageSrcs(ast.block.children[1].children, FALSE)

---------------------------------------------------------------------------
(* Properties of the renderer *)

RenderDone == pc = "_block_dict_to_text_done"

\* the lines of a text: the pieces between its line breaks
Lines(txt) ==
    LET f[i \in 0..Len(txt)] ==
            IF i = 0 THEN <<(<<>>)>>
            ELSE IF txt[i] = NL THEN Append(f[i - 1], <<>>)
            ELSE [f[i - 1] EXCEPT ![Len(f[i - 1])] = Append(@, txt[i])]
    IN  f[Len(txt)]

\* the lines joined by line breaks
JoinLines(ls) ==
    LET f[i \in 0..Len(ls)] ==
            IF i = 0 THEN <<>>
            ELSE IF i = 1 THEN ls[1]
            ELSE f[i - 1] \o <<NL>> \o ls[i]
    IN  f[Len(ls)]

\* a text with one tab put before each of its lines
Indented(txt) == JoinLines([i \in DOMAIN Lines(txt) |-> <<TAB>> \o Lines(txt)[i]])

\* the number of tabs a line begins with
LeadingTabs(line) ==
    LET f[i \in 0..Len(line)] ==
            IF i = 0 THEN 0
            ELSE IF f[i - 1] = i - 1 /\ line[i] = TAB THEN i ELSE f[i - 1]
    IN  f[Len(line)]

\* the block's own line, read off the renderer's table of kinds
OwnLine(b, p) ==
    LET t == b.type[1]
        rt == _rich_text_arr_to_text(Get(b.data[1], "rich_text"))
    IN  CASE t = "bulleted_list_item" -> <<"- ">> \o rt
          [] t = "numbered_list_item" -> <<ToString(p + 1), ". ">> \o rt
          [] t = "heading_1" -> <<"#", " ">> \o rt
          [] t = "heading_2" -> <<"#", "#", " ">> \o rt
          [] t = "heading_3" -> <<"#", "#", "#", " ">> \o rt
          [] t = "quote" -> <<"> ">> \o rt
          [] t = "to_do" -> (IF GetOr(b.data[1], "checked", FALSE)
                             THEN <<"- [x]">> ELSE <<"- [ ]">>) \o rt
          [] t \in {"paragraph", "toggle"} -> rt

\* the rendering of children one level below: for each child in order a line
\* break and the child's text, indented; the first exception of a child escapes
BelowText(children) ==
    LET r == [i \in DOMAIN children |-> _block_dict_to_text(children[i], i - 1)]
        bad == {i \in DOMAIN children : r[i].exc # ""}
    IN  IF bad # {} THEN Raise(r[CHOOSE i \in bad : \A j \in bad : i <= j].exc)
        ELSE Return(Flatten([i \in DOMAIN children |-> <<NL>> \o Indented(r[i].val)]))

\* a block whose every descendant is of a child-bearing kind with data
\* and with one line of text of its own
RECURSIVE OneLineEach(_)
OneLineEach(b) ==
    /\ b.type # None
    /\ b.type[1] \in ChildBearingKinds
    /\ b.data # None
    /\ NL \notin {_rich_text_arr_to_text(Get(b.data[1], "rich_text"))[i] :
                    i \in DOMAIN _rich_text_arr_to_text(Get(b.data[1], "rich_text"))}
    /\ \A i \in DOMAIN b.children : OneLineEach(b.children[i])

\* the nesting depth of each block of a tree, the block first, then its
\* children in order
RECURSIVE Depths(_, _)
Depths(b, depth) ==
    <<depth>> \o Flatten([i \in DOMAIN b.children |-> Depths(b.children[i], depth + 1)])

C6_UnknownKindEmpty ==
    (/\ RenderDone
     /\ (block_dict.type = None \/ block_dict.type[1] \notin DispatchKinds)) =>
        text = Return(<<>>)

\* C8: the text of a code block whose language is missing or None opens with
\* a line of three backquotes and nothing else, followed by the rich text and
\* the closing fence.
C8_FenceWithoutLanguage ==
    (/\ RenderDone
     /\ block_dict.type = Some("code")
     /\ block_dict.data # None
     /\ GetNullable(block_dict.data[1], "language") = None) =>
        text = Return(<<FENCE, NL>>
                      \o _rich_text_arr_to_text(Get(block_dict.data[1], "rich_text"))
                      \o <<NL, FENCE>>)

---------------------------------------------------------------------------
(* Properties of the fetch loop *)

\* C9: the list get_page_blocks returns has at most num_blocks elements.
C9_AtMostNumBlocks ==
    pc = "_get_block_children_done" => Len(blocks) <= num_blocks

=============================================================================
